---- MODULE Spec2Model ----
(***************************************************************************)
(* A model of the simple_http request dispatch pipeline: App::add_handler, *)
(* App::run, App::handle_connection (simple_http/src/app.rs), the request  *)
(* parser and header helpers (simple_http/src/http_util.rs), the default   *)
(* 404 handler and the example handlers.                                   *)
(*                                                                         *)
(* Text is modelled as a sequence of one-character strings, so that the    *)
(* regular expressions, the Debug formatting of header values and the      *)
(* wire format are computed character by character.                        *)
(***************************************************************************)
EXTENDS Integers, Sequences, FiniteSets, TLC

VARIABLES
    handlers,     \* App.handlers: the HandlerList, in registration order
    pc,           \* position of the server thread
    client,       \* what the peer of the current connection sends
    readResult,   \* outcome of stream.read for the current connection
    buffer,       \* the fixed-size read buffer of handle_connection
    req,          \* the http::Request built by parse_request
    route,        \* index of the route found by .find(), 0 for None
    invoked,      \* name of the handler that was called
    res,          \* the http::Response returned by the handler
    res_str,      \* the serialized response
    written,      \* return value of handle_connection: Option<usize>
    wire,         \* the bytes the peer received
    steps,        \* the steps handle_connection has completed, in order
    u             \* state of the helper-function harness (SpecUtil)

vars == <<handlers, pc, client, readResult, buffer, req, route, invoked, res,
          res_str, written, wire, steps, u>>

(***************************************************************************)
(* Bounds of the model.                                                    *)
(***************************************************************************)
\* The number of add_handler calls made before run().
MaxRoutes == 2
\* Capacity of the read buffer. The program reads into [0; 1024]; the model
\* uses a smaller buffer of the same shape (zero-filled, one read, the whole
\* array handed to the parser) so that requests shorter than, and longer
\* than, the buffer both occur.
BufferSize == 64

(***************************************************************************)
(* Characters.                                                             *)
(***************************************************************************)
CR == "\r"
LF == "\n"
NUL == "NUL"          \* the byte 0 the buffer is initialised with
BADBYTE == "xFF"      \* a byte that is not valid UTF-8
REPLACEMENT == "uFFFD" \* U+FFFD, what from_utf8_lossy puts in its place
QUOTE == "\""
BACKSLASH == "\\"

UpperSeq == <<"A", "B", "C", "D", "E", "F", "G", "H", "I", "J", "K", "L", "M",
              "N", "O", "P", "Q", "R", "S", "T", "U", "V", "W", "X", "Y", "Z">>
LowerSeq == <<"a", "b", "c", "d", "e", "f", "g", "h", "i", "j", "k", "l", "m",
              "n", "o", "p", "q", "r", "s", "t", "u", "v", "w", "x", "y", "z">>
UpperChars == {UpperSeq[i] : i \in 1..Len(UpperSeq)}
LowerChars == {LowerSeq[i] : i \in 1..Len(LowerSeq)}
DigitChars == {"0", "1", "2", "3", "4", "5", "6", "7", "8", "9"}

\* u8::to_ascii_lowercase, as HeaderName applies it to every byte of a name
ToLowerChar(c) ==
    IF c \in UpperChars
    THEN LowerSeq[CHOOSE i \in 1..Len(UpperSeq) : UpperSeq[i] = c]
    ELSE c

ToLower(s) == [i \in 1..Len(s) |-> ToLowerChar(s[i])]

(***************************************************************************)
(* Sequence helpers.                                                       *)
(***************************************************************************)
Min(S) == CHOOSE x \in S : \A y \in S : x <= y

\* s[a..b-1]
Slice(s, a, b) == [i \in 1..(b - a) |-> s[a + i - 1]]

\* Does the literal lit occur in s at position i?
LitAt(s, i, lit) ==
    /\ i + Len(lit) - 1 <= Len(s)
    /\ \A k \in 1..Len(lit) : s[i + k - 1] = lit[k]

\* A character class [...] or, negated, [^...].
InClass(c, class) == (c \in class.chars) # class.negated

\* First position at or after i whose character is not in the class,
\* Len(s)+1 when the run reaches the end: the end of a greedy x+ or x*.
RunEnd(s, i, class) ==
    LET stops == {j \in i..Len(s) : ~InClass(s[j], class)}
    IN  IF stops = {} THEN Len(s) + 1 ELSE Min(stops)

\* First position at or after i where lit occurs, 0 if none.
FindLit(s, i, lit) ==
    LET hits == {j \in i..Len(s) : LitAt(s, j, lit)}
    IN  IF hits = {} THEN 0 ELSE Min(hits)

\* The element of a one-element set.  Only({e : x \in {v}}) is e with x bound
\* to the value of v, which is then computed once however often e uses it.
Only(S) == CHOOSE x \in S : TRUE

RECURSIVE Flatten(_)
Flatten(ss) == IF ss = <<>> THEN <<>> ELSE Head(ss) \o Flatten(Tail(ss))

(***************************************************************************)
(* Regular expressions of the route table (regex::Regex).  A pattern is    *)
(* compiled to a syntax tree; is_match is an unanchored search.            *)
(***************************************************************************)
ReLit(c) == [t |-> "lit", c |-> c]
ReAny == [t |-> "any"]                       \* . : any character but \n
ReCat(l, r) == [t |-> "cat", l |-> l, r |-> r]
ReAlt(l, r) == [t |-> "alt", l |-> l, r |-> r]
ReStar(r) == [t |-> "star", r |-> r]

RECURSIVE ReLits(_)
ReLits(s) == IF Len(s) = 1 THEN ReLit(s[1]) ELSE ReCat(ReLit(Head(s)), ReLits(Tail(s)))

\* The positions at which a match of re that starts at position i can end.
RECURSIVE MatchEnds(_, _, _)
RECURSIVE StarEnds(_, _, _, _)
MatchEnds(re, s, i) ==
    CASE re.t = "lit" -> IF i <= Len(s) /\ s[i] = re.c THEN {i + 1} ELSE {}
      [] re.t = "any" -> IF i <= Len(s) /\ s[i] # LF THEN {i + 1} ELSE {}
      [] re.t = "cat" -> UNION {MatchEnds(re.r, s, j) : j \in MatchEnds(re.l, s, i)}
      [] re.t = "alt" -> MatchEnds(re.l, s, i) \cup MatchEnds(re.r, s, i)
      [] re.t = "star" -> StarEnds(re.r, s, {i}, {i})

StarEnds(r, s, frontier, seen) ==
    Only({ IF next = {} THEN seen
           ELSE Only({StarEnds(r, s, next, all) : all \in {seen \cup next}})
           : next \in {(UNION {MatchEnds(r, s, j) : j \in frontier}) \ seen} })

\* Regex::is_match: does the pattern match anywhere in s?
is_match(re, s) == \E i \in 1..(Len(s) + 1) : MatchEnds(re, s, i) # {}

\* The pattern strings passed to add_handler.
PatFoo == <<"/", "f", "o", "o">>
PatCatchAll == <<"/", ".", "*">>
PatEcho == <<"/", "e", "c", "h", "o">>
PatFooBar == <<"/", "(", "f", "o", "o", "|", "b", "a", "r", ")">>
PatBroken == <<"/", "(", "f", "o", "o">>

\* Regex::new: the syntax tree of a pattern, or an error for a malformed one.
RegexNew(pattern) ==
    CASE pattern = PatFoo -> [ok |-> TRUE, regex |-> ReLits(PatFoo)]
      [] pattern = PatCatchAll ->
            [ok |-> TRUE, regex |-> ReCat(ReLit("/"), ReStar(ReAny))]
      [] pattern = PatEcho -> [ok |-> TRUE, regex |-> ReLits(PatEcho)]
      [] pattern = PatFooBar ->
            [ok |-> TRUE,
             regex |-> ReCat(ReLit("/"),
                             ReAlt(ReLits(<<"f", "o", "o">>), ReLits(<<"b", "a", "r">>)))]
      [] OTHER -> [ok |-> FALSE]

(***************************************************************************)
(* http::Uri, http::HeaderMap, http::HeaderValue as the program uses them. *)
(***************************************************************************)
\* Characters a request target may not hold (the control characters of the
\* model's alphabet); Uri parsing fails on them.
IsUriChar(c) == c \notin {NUL, CR, LF, "\t", " ", BADBYTE, REPLACEMENT}

HttpScheme == <<"h", "t", "t", "p", ":", "/", "/">>

\* Uri::try_from(&str) for origin-form ("/path?query") and absolute-form
\* ("http://host/path?query") targets; any other text is read as an authority.
\* A fragment ("#...") is dropped.
UriParse(t) ==
    LET hash == FindLit(t, 1, <<"#">>)
        noFrag == IF hash = 0 THEN t ELSE Slice(t, 1, hash)
        abs == LitAt(noFrag, 1, HttpScheme)
        hostStart == Len(HttpScheme) + 1
        slash == FindLit(noFrag, hostStart, <<"/">>)
        hostEnd == IF slash = 0 THEN Len(noFrag) + 1 ELSE slash
        pq == IF abs THEN Slice(noFrag, hostEnd, Len(noFrag) + 1) ELSE noFrag
        qm == FindLit(pq, 1, <<"?">>)
        rawPath == IF qm = 0 THEN pq ELSE Slice(pq, 1, qm)
    IN  IF t = <<>> \/ \E i \in 1..Len(t) : ~IsUriChar(t[i])
        THEN [ok |-> FALSE]
        ELSE IF abs /\ hostEnd > hostStart
        THEN [ok |-> TRUE, hasHost |-> TRUE,
              host |-> Slice(noFrag, hostStart, hostEnd),
              path |-> IF rawPath = <<>> THEN <<"/">> ELSE rawPath,
              hasQuery |-> qm # 0,
              query |-> IF qm = 0 THEN <<>> ELSE Slice(pq, qm + 1, Len(pq) + 1)]
        ELSE IF noFrag # <<>> /\ noFrag[1] = "/"
        THEN [ok |-> TRUE, hasHost |-> FALSE, host |-> <<>>,
              path |-> rawPath,
              hasQuery |-> qm # 0,
              query |-> IF qm = 0 THEN <<>> ELSE Slice(pq, qm + 1, Len(pq) + 1)]
        ELSE [ok |-> TRUE, hasHost |-> TRUE, host |-> noFrag, path |-> <<>>,
              hasQuery |-> FALSE, query |-> <<>>]

\* HeaderValue::from_str accepts a byte b iff b >= 32 && b != 127 || b == '\t'.
IsHeaderValueChar(c) == c \notin {NUL, CR, LF, BADBYTE}

\* HeaderMap::append: the map iterates names in the order of their first
\* insertion, the values of one name together in insertion order.
HeaderMapAppend(map, name, value) ==
    LET same == {i \in 1..Len(map) : map[i].name = name}
        entry == [name |-> name, value |-> value]
    IN  IF same = {} THEN Append(map, entry)
        ELSE LET last == CHOOSE i \in same : \A j \in same : j <= i
             IN  SubSeq(map, 1, last) \o <<entry>> \o SubSeq(map, last + 1, Len(map))

\* HeaderMap::get(name): the first value stored under the name (names compare
\* without case), or None.
HeaderMapGet(map, name) ==
    LET same == {i \in 1..Len(map) : map[i].name = ToLower(name)}
    IN  IF same = {} THEN [some |-> FALSE]
        ELSE [some |-> TRUE, value |-> map[Min(same)].value]

(***************************************************************************)
(* http_util::parse_request.  The regular expression                       *)
(*   (?m)(?P<method>[A-Z]+) (?P<path>[^ ]+) HTTP/1\.\d\r\n                 *)
(*   (?P<headers>(?:[A-Za-z-]+: [^\r\n]+\r\n)+)?(?:\r\n(?P<body>.+))?      *)
(* is searched unanchored, leftmost match first, every repetition greedy.  *)
(* Each repetition is a run of one character class followed by a character *)
(* outside the class, so the greedy run is the only way to match.          *)
(***************************************************************************)
ClassUpper == [chars |-> UpperChars, negated |-> FALSE]               \* [A-Z]
ClassNotSpace == [chars |-> {" "}, negated |-> TRUE]                   \* [^ ]
ClassHeaderName ==                                                     \* [A-Za-z-]
    [chars |-> UpperChars \cup LowerChars \cup {"-"}, negated |-> FALSE]
ClassNotCRLF == [chars |-> {CR, LF}, negated |-> TRUE]                 \* [^\r\n]
ClassDot == [chars |-> {LF}, negated |-> TRUE]                         \* .

HttpMarker == <<" ", "H", "T", "T", "P", "/", "1", ".">>
CRLF == <<CR, LF>>
HeaderSep == <<":", " ">>

\* The request line matched at position i: [A-Z]+ SP [^ ]+ SP HTTP/1.\d CRLF
RequestLineAt(s, i) ==
    LET mEnd == RunEnd(s, i, ClassUpper)
        pStart == mEnd + 1
        pEnd == RunEnd(s, pStart, ClassNotSpace)
        dig == pEnd + Len(HttpMarker)
    IN  IF /\ mEnd > i
           /\ LitAt(s, mEnd, <<" ">>)
           /\ pEnd > pStart
           /\ LitAt(s, pEnd, HttpMarker)
           /\ dig <= Len(s) /\ s[dig] \in DigitChars
           /\ LitAt(s, dig + 1, CRLF)
        THEN [ok |-> TRUE, method |-> Slice(s, i, mEnd),
              path |-> Slice(s, pStart, pEnd), end |-> dig + 3]
        ELSE [ok |-> FALSE]

\* End of one header line [A-Za-z-]+: [^\r\n]+\r\n starting at i, 0 if the
\* text at i is not such a line.
HeaderLineEnd(s, i) ==
    LET nEnd == RunEnd(s, i, ClassHeaderName)
        vStart == nEnd + Len(HeaderSep)
        vEnd == RunEnd(s, vStart, ClassNotCRLF)
    IN  IF /\ nEnd > i
           /\ LitAt(s, nEnd, HeaderSep)
           /\ vEnd > vStart
           /\ LitAt(s, vEnd, CRLF)
        THEN vEnd + Len(CRLF)
        ELSE 0

\* End of the greedy repetition of header lines starting at i.
RECURSIVE HeadersEnd(_, _)
HeadersEnd(s, i) ==
    Only({IF e = 0 THEN i ELSE HeadersEnd(s, e) : e \in {HeaderLineEnd(s, i)}})

\* re.captures(req_str): the named groups of the leftmost match, or None.
CapturesAt(s, line) ==
    Only({ LET bStart == hEnd + Len(CRLF)
               hasBody == LitAt(s, hEnd, CRLF) /\ RunEnd(s, bStart, ClassDot) > bStart
           IN  [some |-> TRUE, method |-> line.method, path |-> line.path,
                hasHeaders |-> hEnd > line.end,
                headers |-> Slice(s, line.end, hEnd),
                hasBody |-> hasBody,
                body |-> IF hasBody
                         THEN Slice(s, bStart, RunEnd(s, bStart, ClassDot))
                         ELSE <<>>]
           : hEnd \in {HeadersEnd(s, line.end)} })

Captures(s) ==
    Only({ IF starts = {} THEN [some |-> FALSE]
           ELSE Only({CapturesAt(s, line) : line \in {RequestLineAt(s, Min(starts))}})
           : starts \in {{i \in 1..Len(s) : RequestLineAt(s, i).ok}} })

\* str::split("\r\n")
RECURSIVE SplitCRLF(_)
SplitCRLF(s) ==
    Only({ IF at = 0 THEN <<s>>
           ELSE <<Slice(s, 1, at)>>
                \o Only({SplitCRLF(rest) : rest \in {Slice(s, at + Len(CRLF), Len(s) + 1)}})
           : at \in {FindLit(s, 1, CRLF)} })

\* str::split_once(": ")
SplitOnce(line) ==
    LET at == FindLit(line, 1, HeaderSep)
    IN  IF at = 0 THEN [some |-> FALSE]
        ELSE [some |-> TRUE, key |-> Slice(line, 1, at),
              value |-> Slice(line, at + Len(HeaderSep), Len(line) + 1)]

\* Request::builder().header(key, value) for each pair: an invalid header
\* value makes the builder fail.
RECURSIVE BuildHeaders(_, _)
BuildHeaders(pairs, map) ==
    IF pairs = <<>> THEN [ok |-> TRUE, map |-> map]
    ELSE LET kv == Head(pairs)
         IN  IF \E i \in 1..Len(kv.value) : ~IsHeaderValueChar(kv.value[i])
             THEN [ok |-> FALSE]
             ELSE Only({ BuildHeaders(rest, added)
                         : rest \in {Tail(pairs)},
                           added \in {HeaderMapAppend(map, ToLower(kv.key), kv.value)} })

\* The header pairs of the captured header text: split on "\r\n", drop the
\* empty pieces, split each piece once on ": ".
HeaderPairs(text) ==
    Only({ [i \in 1..Len(lines) |-> SplitOnce(lines[i])]
           : lines \in {SelectSeq(SplitCRLF(text), LAMBDA x : x # <<>>)} })

\* Request::builder().method(method).uri(path) ... .body(body).unwrap()
BuildRequest(caps, pairs) ==
    IF \E i \in 1..Len(pairs) : ~pairs[i].some
    THEN [kind |-> "panic"]
    ELSE Only({ IF ~uri.ok \/ ~built.ok
                THEN [kind |-> "panic"]
                ELSE [kind |-> "some",
                      method |-> caps.method,
                      uri |-> uri,
                      headers |-> built.map,
                      body |-> caps.body]
                : uri \in {UriParse(caps.path)}, built \in {BuildHeaders(pairs, <<>>)} })

\* parse_request(req_str): kind "none" is Option::None, "panic" an unwrap()
\* that fails inside the function, "some" the request.
parse_request(req_str) ==
    Only({ IF ~caps.some THEN [kind |-> "none"]
           ELSE Only({ BuildRequest(caps, pairs)
                       : pairs \in {HeaderPairs(IF caps.hasHeaders
                                                THEN caps.headers ELSE <<>>)} })
           : caps \in {Captures(req_str)} })

(***************************************************************************)
(* Header helpers of http_util and construct_request.                      *)
(***************************************************************************)
\* format!("{:?}", hv) for an http::HeaderValue: the value between double
\* quotes, a double quote inside it written \" and a byte that is not
\* visible ASCII written \x<hex> (of the characters a HeaderValue can hold
\* here, only U+FFFD, whose bytes are ef bf bd).
DebugHeaderChar(c) ==
    IF c = QUOTE THEN <<BACKSLASH, QUOTE>>
    ELSE IF c = REPLACEMENT
    THEN <<BACKSLASH, "x", "e", "f", BACKSLASH, "x", "b", "f", BACKSLASH, "x", "b", "d">>
    ELSE <<c>>

DebugHeaderValue(v) ==
    <<QUOTE>> \o Flatten([i \in 1..Len(v) |-> DebugHeaderChar(v[i])]) \o <<QUOTE>>

\* format!("{:?}", s) for a &str: between double quotes, with " and \ escaped.
DebugStr(s) ==
    <<QUOTE>>
    \o Flatten([i \in 1..Len(s) |->
                   IF s[i] \in {QUOTE, BACKSLASH} THEN <<BACKSLASH, s[i]>> ELSE <<s[i]>>])
    \o <<QUOTE>>

\* Regex::new("(^\")|(\"$)").replace_all(text, ""): a double quote at the
\* very start and a double quote at the very end are removed.
StripQuotes(text) ==
    LET n == Len(text)
        from == IF n >= 1 /\ text[1] = QUOTE THEN 2 ELSE 1
        to == IF n >= from /\ text[n] = QUOTE THEN n ELSE n + 1
    IN  Slice(text, from, to)

\* parse_header(header)
parse_header(header) == StripQuotes(DebugHeaderValue(header))

\* extract_header(src, header): panics when the header is absent.
extract_header(src, header) ==
    LET hv == HeaderMapGet(src.headers, header)
    IN  IF ~hv.some THEN [kind |-> "panic"]
        ELSE [kind |-> "ok", value |-> StripQuotes(DebugHeaderValue(hv.value))]

\* {:?} of http::Version; a built request always carries the default version.
VersionDebug == <<"H", "T", "T", "P", "/", "1", ".", "1">>

\* Vec<String>::join(sep)
RECURSIVE Join(_, _)
Join(ss, sep) ==
    IF ss = <<>> THEN <<>>
    ELSE IF Len(ss) = 1 THEN ss[1]
    ELSE ss[1] \o sep \o Join(Tail(ss), sep)

HostName == <<"H", "o", "s", "t">>

\* construct_request(req): panics when the request URI has no host.
construct_request(r) ==
    IF ~r.uri.hasHost THEN [kind |-> "panic"]
    ELSE [kind |-> "text",
          text |-> r.method \o <<" ">> \o r.uri.path \o <<" ">> \o VersionDebug \o CRLF
                   \o HostName \o HeaderSep \o DebugStr(r.uri.host) \o CRLF
                   \o Join([i \in 1..Len(r.headers) |->
                               r.headers[i].name \o HeaderSep
                               \o parse_header(r.headers[i].value)], CRLF)
                   \o CRLF
                   \o r.body]

(***************************************************************************)
(* Handlers: the default handler and the handlers of the examples.         *)
(***************************************************************************)
Response(status, body) ==
    [kind |-> "res", status |-> status, headers |-> <<>>, body |-> body]

\* A not_found that answers 200.
not_found_ok(r) == Response(200, <<>>)

\* default_handlers::not_found
not_found(r) == Response(404, <<>>)

\* examples/echo.rs echo_handler
echo_handler(r) ==
    LET host == extract_header(r, HostName)
    IN  IF host.kind = "panic" THEN [kind |-> "panic"] ELSE Response(200, host.value)

\* examples/path.rs foobar_handler
foobar_handler(r) == Response(200, r.uri.path)

\* main.rs catchall_handler
catchall_handler(r) ==
    Response(200, <<"P", "u", "r", "g", "a", "t", "o", "r", "y", ".", ".", ".">>)

\* Calling a RequestHandler function pointer.
CallHandler(h, r) ==
    CASE h = "echo_handler" -> echo_handler(r)
      [] h = "foobar_handler" -> foobar_handler(r)
      [] h = "catchall_handler" -> catchall_handler(r)
      [] h = "not_found" -> not_found(r)

(***************************************************************************)
(* Response serialization (handle_connection).                             *)
(***************************************************************************)
DigitSeq == <<"0", "1", "2", "3", "4", "5", "6", "7", "8", "9">>

\* StatusCode::as_str: the three decimal digits
StatusStr(status) ==
    <<DigitSeq[(status \div 100) + 1], DigitSeq[((status \div 10) % 10) + 1],
      DigitSeq[(status % 10) + 1]>>

\* StatusCode::canonical_reason
canonical_reason(status) ==
    CASE status = 200 -> [some |-> TRUE, reason |-> <<"O", "K">>]
      [] status = 400 ->
            [some |-> TRUE,
             reason |-> <<"B", "a", "d", " ", "R", "e", "q", "u", "e", "s", "t">>]
      [] status = 404 ->
            [some |-> TRUE, reason |-> <<"N", "o", "t", " ", "F", "o", "u", "n", "d">>]
      [] OTHER -> [some |-> FALSE]

\* The header lines of the response, each "name: value\r\n".
HeaderString(hs) ==
    Flatten([i \in 1..Len(hs) |->
                hs[i].name \o HeaderSep \o parse_header(hs[i].value) \o CRLF])

\* The response text, or a panic when the status has no canonical reason.
Serialize(r) ==
    LET reason == canonical_reason(r.status)
    IN  IF ~reason.some THEN [kind |-> "panic"]
        ELSE [kind |-> "text",
              text |-> VersionDebug \o <<" ">> \o StatusStr(r.status) \o <<" ">>
                       \o reason.reason \o CRLF
                       \o HeaderString(r.headers) \o CRLF
                       \o r.body]

\* String::from_utf8_lossy: an invalid byte becomes U+FFFD.
FromUtf8Lossy(bytes) ==
    [i \in 1..Len(bytes) |-> IF bytes[i] = BADBYTE THEN REPLACEMENT ELSE bytes[i]]

\* self.handlers.iter().find(|r| r.0.regex.is_match(path)): the index of the
\* first route, in registration order, whose pattern matches; 0 for None.
RECURSIVE FindFrom(_, _, _)
FindFrom(hs, path, i) ==
    IF i > Len(hs) THEN 0
    ELSE IF is_match(hs[i].regex, path) THEN i
    ELSE FindFrom(hs, path, i + 1)

\* A find that keeps the last matching route instead of the first.
FindLast(hs, path) ==
    LET hits == {i \in 1..Len(hs) : is_match(hs[i].regex, path)}
    IN  IF hits = {} THEN 0 ELSE CHOOSE i \in hits : \A j \in hits : j <= i

Find(hs, path) == FindFrom(hs, path, 1)

(***************************************************************************)
(* What a peer sends.  A request is composed of a request line, header     *)
(* lines and a tail; other peers send arbitrary bytes.                     *)
(***************************************************************************)
Targets ==
    { <<"/", "f", "o", "o">>,
      <<"/", "e", "c", "h", "o">>,
      <<"/", "n", "o", "p", "e">>,
      <<"/", "a", "/", "f", "o", "o", "?", "x", "=", "1">>,
      <<"h", "t", "t", "p", ":", "/", "/", "h", "/", "f", "o", "o">> }

HostExample == <<"H", "o", "s", "t", ":", " ",
                 "e", "x", "a", "m", "p", "l", "e", ".", "c", "o", "m">>
HostBar == <<"H", "o", "s", "t", ":", " ", "b", "a", "r", ".", "c", "o", "m">>
HostQuoted == <<"H", "o", "s", "t", ":", " ", "a", QUOTE, "b">>
AcceptAny == <<"A", "c", "c", "e", "p", "t", ":", " ", "x">>
HostSecond == <<"H", "o", "s", "t", ":", " ", "y">>
NoSeparator == <<"H", "o", "s", "t", "e", "x", "a", "m", "p", "l", "e">>

HeaderBlocks ==
    { <<>>,
      <<HostExample>>,
      <<HostQuoted>>,
      <<HostBar, AcceptAny, HostSecond>>,
      <<NoSeparator>>,
      <<HostBar, NoSeparator, AcceptAny>> }

\* What follows the header lines: nothing, the blank line alone, or the
\* blank line and a body.
Tails ==
    { [blank |-> FALSE, body |-> <<>>],
      [blank |-> TRUE, body |-> <<>>],
      [blank |-> TRUE, body |-> <<"h", "i">>],
      [blank |-> TRUE, body |-> <<"a", CR, LF, "b">>] }

RawInputs ==
    { <<>>,
      <<"h", "e", "l", "l", "o">>,
      <<BADBYTE, "G", BADBYTE>>,
      <<"G", "E", "T", " ", "/", "f", "o", "o", " ", "H", "T", "T", "P", "/", "2", ".", "0",
        CR, LF, CR, LF>>,
      <<"G", "E", "T", " ", "/", "f", "o", "o", " ", "H", "T", "T", "P", "/", "1", ".", "1",
        CR, LF, "H", "o", "s", "t", ":", " ", NUL, CR, LF, CR, LF>> }

Clients ==
    [kind : {"request"}, target : Targets, headers : HeaderBlocks, tail : Tails]
    \cup {[kind |-> "raw", bytes |-> b] : b \in RawInputs}

\* The bytes the peer puts on the wire.
ClientBytes(c) ==
    IF c.kind = "raw" THEN c.bytes
    ELSE <<"G", "E", "T", " ">> \o c.target \o HttpMarker \o <<"1">> \o CRLF
         \o Flatten([i \in 1..Len(c.headers) |-> c.headers[i] \o CRLF])
         \o (IF c.tail.blank THEN CRLF ELSE <<>>)
         \o c.tail.body

\* The (pattern, handler) pairs a program registers.
RoutePool ==
    { [pattern |-> PatFoo, handler |-> "foobar_handler"],
      [pattern |-> PatCatchAll, handler |-> "catchall_handler"],
      [pattern |-> PatEcho, handler |-> "echo_handler"],
      [pattern |-> PatFooBar, handler |-> "foobar_handler"],
      [pattern |-> PatBroken, handler |-> "foobar_handler"] }

(***************************************************************************)
(* The server: App::new, add_handler, run, handle_connection.              *)
(***************************************************************************)
NoRequest == [kind |-> "none"]
NoResponse == [kind |-> "none"]
NoClient == [kind |-> "nobody"]
NotWritten == [kind |-> "pending"]
UtilIdle == [pc |-> "idle"]

\* The per-connection locals before a connection is accepted.
ConnectionReset ==
    /\ client' = NoClient
    /\ readResult' = "none"
    /\ buffer' = <<>>
    /\ req' = NoRequest
    /\ route' = 0
    /\ invoked' = "none"
    /\ res' = NoResponse
    /\ res_str' = <<>>
    /\ written' = NotWritten
    /\ wire' = <<>>
    /\ steps' = <<>>

\* App::new: an empty HandlerList.
Init ==
    /\ handlers = <<>>
    /\ pc = "setup"
    /\ client = NoClient
    /\ readResult = "none"
    /\ buffer = <<>>
    /\ req = NoRequest
    /\ route = 0
    /\ invoked = "none"
    /\ res = NoResponse
    /\ res_str = <<>>
    /\ written = NotWritten
    /\ wire = <<>>
    /\ steps = <<>>
    /\ u = UtilIdle

\* A panic on the only thread: the process ends.
Panic ==
    /\ pc' = "panicked"
    /\ UNCHANGED <<handlers, client, buffer, req, route, invoked, res, res_str,
                   written, wire, steps, u>>

\* app.add_handler(pattern, handler), before run(): the pattern is compiled
\* and the pair pushed; a malformed pattern panics.
AddHandler ==
    /\ pc = "setup"
    /\ Len(handlers) < MaxRoutes
    /\ \E r \in RoutePool :
          LET compiled == RegexNew(r.pattern)
          IN  IF compiled.ok
              THEN /\ handlers' = Append(handlers,
                                         [pattern |-> r.pattern, regex |-> compiled.regex,
                                          handler |-> r.handler])
                   /\ UNCHANGED <<pc, client, readResult, buffer, req, route, invoked,
                                  res, res_str, written, wire, steps, u>>
              ELSE Panic /\ UNCHANGED readResult

\* app.run(): enter the loop over listener.incoming().
Run ==
    /\ pc = "setup"
    /\ pc' = "accept"
    /\ UNCHANGED <<handlers, client, readResult, buffer, req, route, invoked, res,
                   res_str, written, wire, steps, u>>

\* The next item of listener.incoming(): stream.unwrap() panics on an accept
\* error, otherwise handle_connection(stream) is entered.
Accept ==
    /\ pc = "accept"
    /\ \E ok \in BOOLEAN :
          IF ok
          THEN /\ \E c \in Clients : client' = c
               /\ pc' = "read"
               /\ UNCHANGED <<handlers, readResult, buffer, req, route, invoked, res,
                              res_str, written, wire, steps, u>>
          ELSE Panic /\ UNCHANGED readResult

\* let mut buffer = [0; 1024]; stream.read(&mut buffer).unwrap();
\* One read fills the front of the zeroed buffer with what the peer sent, as
\* far as it fits (the peer's bytes are taken to arrive together; the count
\* read returns is discarded by the code); a read error panics.
Read ==
    /\ pc = "read"
    /\ \E ok \in BOOLEAN :
          IF ok
          THEN \E sent \in {ClientBytes(client)} :
                   /\ buffer' = [i \in 1..BufferSize |->
                                    IF i <= Len(sent) THEN sent[i] ELSE NUL]
                   /\ readResult' = "ok"
                   /\ pc' = "parse"
                   /\ steps' = Append(steps, "read")
                   /\ UNCHANGED <<handlers, client, req, route, invoked, res, res_str,
                                  written, wire, u>>
          ELSE Panic /\ readResult' = "err"

\* let request_string = String::from_utf8_lossy(&buffer[..]);
\* let req = parse_request(request_string.deref()).unwrap();
Parse ==
    /\ pc = "parse"
    /\ \E request_string \in {FromUtf8Lossy(buffer)} :
       \E parsed \in {parse_request(request_string)} :
           IF parsed.kind = "some"
           THEN /\ req' = parsed
                /\ pc' = "route"
                /\ steps' = Append(steps, "parse")
                /\ UNCHANGED <<handlers, client, readResult, buffer, route, invoked, res,
                               res_str, written, wire, u>>
           ELSE Panic /\ UNCHANGED readResult

\* let matching_path = self.handlers.iter().find(...)
Route ==
    /\ pc = "route"
    /\ route' = Find(handlers, req.uri.path)
    /\ pc' = "handle"
    /\ steps' = Append(steps, "route")
    /\ UNCHANGED <<handlers, client, readResult, buffer, req, invoked, res, res_str,
                   written, wire, u>>

\* match matching_path { Some((_, h)) => h(req), None => not_found(req) }
Handle ==
    /\ pc = "handle"
    /\ \E h \in {IF route = 0 THEN "not_found" ELSE handlers[route].handler} :
       \E out \in {CallHandler(h, req)} :
           /\ invoked' = h
           /\ IF out.kind = "res"
              THEN /\ res' = out
                   /\ pc' = "serialize"
                   /\ steps' = Append(steps, "handle")
              ELSE /\ pc' = "panicked"
                   /\ UNCHANGED <<res, steps>>
    /\ UNCHANGED <<handlers, client, readResult, buffer, req, route, res_str, written,
                   wire, u>>

\* header_string and res_str: canonical_reason().unwrap() panics for a status
\* without a reason phrase.
SerializeStep ==
    /\ pc = "serialize"
    /\ \E out \in {Serialize(res)} :
           IF out.kind = "text"
           THEN /\ res_str' = out.text
                /\ pc' = "write"
                /\ steps' = Append(steps, "serialize")
                /\ UNCHANGED <<handlers, client, readResult, buffer, req, route, invoked,
                               res, written, wire, u>>
           ELSE Panic /\ UNCHANGED readResult

\* The byte counts one stream.write may report: all of the text, or a part.
WriteCounts(text) == {Len(text), Len(text) \div 2}

\* match stream.write(res_str.as_bytes()) { Ok(t) => Some(t), Err(_) => None }
Write ==
    /\ pc = "write"
    /\ \/ /\ written' = [kind |-> "None"]
          /\ wire' = <<>>
       \/ \E n \in WriteCounts(res_str) :
             /\ written' = [kind |-> "Some", n |-> n]
             /\ wire' = SubSeq(res_str, 1, n)
    /\ pc' = "close"
    /\ steps' = Append(steps, "write")
    /\ UNCHANGED <<handlers, client, readResult, buffer, req, route, invoked, res,
                   res_str, u>>

\* A keep-alive variant: the connection goes back to reading.
CloseKeepAlive ==
    /\ pc = "close"
    /\ pc' = "read"
    /\ UNCHANGED <<handlers, client, readResult, buffer, req, route, invoked, res,
                   res_str, written, wire, steps, u>>

\* handle_connection returns, the stream is dropped, and the loop of run()
\* goes on to the next incoming connection.
Close ==
    /\ pc = "close"
    /\ pc' = "accept"
    /\ ConnectionReset
    /\ UNCHANGED <<handlers, u>>

Next ==
    \/ AddHandler
    \/ Run
    \/ Accept
    \/ Read
    \/ Parse
    \/ Route
    \/ Handle
    \/ SerializeStep
    \/ Write
    \/ Close

Spec == Init /\ [][Next]_vars

(***************************************************************************)
(* A harness for the functions of http_util, which a handler or a test     *)
(* calls directly: parse_request on the text a peer sent, then             *)
(* construct_request, extract_header or parse_header on the result.        *)
(***************************************************************************)
InitUtil ==
    /\ handlers = <<>>
    /\ pc = "setup"
    /\ client = NoClient
    /\ readResult = "none"
    /\ buffer = <<>>
    /\ req = NoRequest
    /\ route = 0
    /\ invoked = "none"
    /\ res = NoResponse
    /\ res_str = <<>>
    /\ written = NotWritten
    /\ wire = <<>>
    /\ steps = <<>>
    /\ u \in {[pc |-> "start", input |-> c] : c \in Clients}

ServerUnchanged ==
    UNCHANGED <<handlers, pc, client, readResult, buffer, req, route, invoked, res,
                res_str, written, wire, steps>>

\* parse_request(text)
UtilParse ==
    /\ u.pc = "start"
    /\ u' = [pc |-> "parsed", input |-> u.input,
             parsed |-> parse_request(ClientBytes(u.input))]
    /\ ServerUnchanged

\* construct_request(req)
UtilConstruct ==
    /\ u.pc = "parsed"
    /\ u.parsed.kind = "some"
    /\ u' = [pc |-> "constructed", input |-> u.input, parsed |-> u.parsed,
             out |-> construct_request(u.parsed)]
    /\ ServerUnchanged

\* extract_header(req, name) for a header name of the request
UtilExtract ==
    /\ u.pc = "parsed"
    /\ u.parsed.kind = "some"
    /\ \E i \in 1..Len(u.parsed.headers) :
          u' = [pc |-> "extracted", input |-> u.input, parsed |-> u.parsed,
                stored |-> HeaderMapGet(u.parsed.headers, u.parsed.headers[i].name).value,
                out |-> extract_header(u.parsed, u.parsed.headers[i].name)]
    /\ ServerUnchanged

\* parse_header(hv) for a header value of the request
UtilParseHeader ==
    /\ u.pc = "parsed"
    /\ u.parsed.kind = "some"
    /\ \E i \in 1..Len(u.parsed.headers) :
          u' = [pc |-> "header_parsed", input |-> u.input, parsed |-> u.parsed,
                stored |-> u.parsed.headers[i].value,
                out |-> parse_header(u.parsed.headers[i].value)]
    /\ ServerUnchanged

NextUtil ==
    \/ UtilParse
    \/ UtilConstruct
    \/ UtilExtract
    \/ UtilParseHeader

SpecUtil == InitUtil /\ [][NextUtil]_vars

(***************************************************************************)
(* Properties.                                                             *)
(***************************************************************************)
PathFoo == <<"/", "f", "o", "o">>
PathEcho == <<"/", "e", "c", "h", "o">>

\* The routes whose pattern matches the path of the current request.
MatchingRoutes ==
    {i \in 1..Len(handlers) : is_match(handlers[i].regex, req.uri.path)}

Patterns == [i \in 1..Len(handlers) |-> handlers[i].pattern]

\* A request whose header lines all hold ": " and which ends its header
\* section with the blank line.
WellFormed(c) ==
    /\ c.kind = "request"
    /\ c.tail.blank
    /\ \A i \in 1..Len(c.headers) : FindLit(c.headers[i], 1, HeaderSep) # 0

\* C1: dispatch picks the first route, in registration order, whose pattern
\* matches somewhere in the request path, and calls its handler: with "/foo"
\* registered before "/.*" a request to /foo reaches the /foo handler, with
\* the reverse order it reaches the catch-all.
C1_FirstMatchWins ==
    (pc \in {"handle", "serialize", "write", "close"}) =>
        /\ route = (IF MatchingRoutes = {} THEN 0 ELSE Min(MatchingRoutes))
        /\ (invoked # "none" /\ route # 0) => invoked = handlers[route].handler
        /\ (Patterns = <<PatFoo, PatCatchAll>> /\ req.uri.path = PathFoo /\ invoked # "none")
              => (route = 1 /\ invoked = "foobar_handler")
        /\ (Patterns = <<PatCatchAll, PatFoo>> /\ req.uri.path = PathFoo /\ invoked # "none")
              => (route = 1 /\ invoked = "catchall_handler")

C1_Witness ==
    /\ pc = "close"
    /\ Patterns = <<PatFoo, PatCatchAll>>
    /\ req.uri.path = PathFoo
    /\ invoked = "foobar_handler"
    /\ Cardinality(MatchingRoutes) = 2

NotFoundText ==
    <<"H", "T", "T", "P", "/", "1", ".", "1", " ", "4", "0", "4", " ",
      "N", "o", "t", " ", "F", "o", "u", "n", "d", CR, LF, CR, LF>>

\* C2: when the path of a parsed request matches no registered pattern (also
\* when no route is registered), no registered handler is called and the
\* response has status 404, reason "Not Found" and an empty body.
C2_NotFoundFallback ==
    (pc \in {"serialize", "write", "close"} /\ MatchingRoutes = {}) =>
        /\ invoked = "not_found"
        /\ res.status = 404
        /\ res.body = <<>>
        /\ pc \in {"write", "close"} => res_str = NotFoundText

C2_Witness ==
    /\ pc = "close"
    /\ handlers # <<>>
    /\ MatchingRoutes = {}
    /\ written = [kind |-> "Some", n |-> Len(NotFoundText)]
    /\ wire = NotFoundText

\* C3: a buffer in which parse_request finds no request does not end the
\* server process.
C3_NoCrashOnUnparsable ==
    (/\ readResult = "ok"
     /\ steps = <<"read">>
     /\ parse_request(FromUtf8Lossy(buffer)).kind = "none")
        => pc # "panicked"

\* C4: a failed read ends the connection without a handler call and without
\* ending the accept loop; a failed write is reported as no bytes written
\* and the loop goes on.
C4_TransportFailureContained ==
    /\ readResult = "err" => (pc # "panicked" /\ invoked = "none")
    /\ written.kind = "None" => (pc = "close" /\ wire = <<>>)

\* The header lines of a request text: the lines after the first, up to the
\* first empty line.
HeaderLinesOf(text) ==
    LET lines == SplitCRLF(text)
        empties == {i \in 2..Len(lines) : lines[i] = <<>>}
        last == IF empties = {} THEN Len(lines) ELSE Min(empties) - 1
    IN  SubSeq(lines, 2, last)

SameHeader(a, b) ==
    LET x == SplitOnce(a)
        y == SplitOnce(b)
    IN  /\ x.some /\ y.some
        /\ ToLower(x.key) = ToLower(y.key)
        /\ x.value = y.value

\* C5: for a well-formed request text, parse_request followed by
\* construct_request gives a text with the same method, path and HTTP/1.x
\* version in its request line and the same header lines in the same order.
C5_ParseRoundTrip ==
    (u.pc = "constructed" /\ WellFormed(u.input)) =>
        /\ u.out.kind = "text"
        /\ LET lines == SplitCRLF(u.out.text)
               got == HeaderLinesOf(u.out.text)
           IN  /\ lines[1] = <<"G", "E", "T", " ">> \o u.parsed.uri.path
                             \o HttpMarker \o <<"1">>
               /\ Len(got) = Len(u.input.headers)
               /\ \A i \in 1..Len(got) : SameHeader(got[i], u.input.headers[i])

\* C6: extract_header and parse_header return the stored header value
\* character for character.
C6_HeaderQuotingSymmetry ==
    /\ u.pc = "extracted" => (u.out.kind = "ok" /\ u.out.value = u.stored)
    /\ u.pc = "header_parsed" => u.out = u.stored

\* C7: with the echo handler registered for /echo, a connection that sends
\* GET /echo HTTP/1.1, a header Host: v and the blank line receives status
\* 200 with the body v.
C7_EndToEndEcho ==
    (/\ pc = "close"
     /\ client.kind = "request"
     /\ client.target = PathEcho
     /\ Len(client.headers) = 1
     /\ LitAt(client.headers[1], 1, HostName \o HeaderSep)
     /\ client.tail = [blank |-> TRUE, body |-> <<>>]
     /\ route # 0
     /\ handlers[route].pattern = PatEcho
     /\ written = [kind |-> "Some", n |-> Len(res_str)])
        => wire = <<"H", "T", "T", "P", "/", "1", ".", "1", " ", "2", "0", "0", " ",
                    "O", "K", CR, LF, CR, LF>>
                  \o Slice(client.headers[1], Len(HostName \o HeaderSep) + 1,
                           Len(client.headers[1]) + 1)

\* C8: when the text has a valid request line and a header line without
\* ": ", parse_request returns no request.
C8_MissingSeparatorRejected ==
    (/\ u.pc = "parsed"
     /\ u.input.kind = "request"
     /\ \E i \in 1..Len(u.input.headers) : FindLit(u.input.headers[i], 1, HeaderSep) = 0)
        => u.parsed.kind = "none"

\* C9: for a request shorter than the read buffer, the body of the request
\* handed to the handler is exactly what the peer sent after the blank line.
C9_BodyIsRemainder ==
    (/\ pc = "handle"
     /\ WellFormed(client)
     /\ Len(ClientBytes(client)) < BufferSize)
        => req.body = client.tail.body

FullOrder == <<"read", "parse", "route", "handle", "serialize", "write">>
StepPc == <<"read", "parse", "route", "handle", "serialize", "write", "close">>
InConnection == pc \in {StepPc[i] : i \in 1..Len(StepPc)}

\* The steps done so far are a prefix of the fixed order, the server is at the
\* step after them, and nothing of a connection exists while the server is
\* setting up or waiting to accept.
C10_Inv ==
    /\ Len(steps) <= Len(FullOrder)
    /\ steps = SubSeq(FullOrder, 1, Len(steps))
    /\ InConnection => pc = StepPc[Len(steps) + 1]
    /\ pc \in {"setup", "accept"} =>
          (steps = <<>> /\ client = NoClient /\ invoked = "none" /\ written = NotWritten)
    /\ pc \in {"read", "parse", "route", "handle"} => invoked = "none"
    /\ pc \in {"serialize", "write", "close"} => invoked # "none"
    /\ InConnection /\ pc # "close" => written = NotWritten
    /\ pc = "close" => written # NotWritten

\* Every step moves to the next position of the order (or ends the process);
\* reading starts only from the accept loop, and the accept loop is reached
\* only from setup or from the end of a connection.
C10_Step ==
    /\ pc' = "read" => pc = "accept"
    /\ pc' = "accept" => pc \in {"setup", "close"}
    /\ (InConnection /\ pc # "close") =>
          \E i \in 1..Len(FullOrder) :
             pc = StepPc[i] /\ pc' \in {StepPc[i + 1], "panicked"}
    /\ pc = "close" => pc' = "accept"
    /\ (invoked # "none" /\ pc' # "accept") => invoked' = invoked
    /\ (written # NotWritten /\ pc' # "accept") => written' = written

\* C10: connections are handled one at a time, and within a connection the
\* steps read, parse, route, handle, serialize, write, close happen once each
\* in that order, with one handler call, one write and no way back to reading.
C10_Sequential == []C10_Inv /\ [][C10_Step]_vars

C10_Witness ==
    /\ pc = "close"
    /\ steps = FullOrder
    /\ invoked # "none"
    /\ written.kind = "Some"

====
